---- MODULE Spec2Model ----
(***************************************************************************)
(* A model of the inventory engine of src/modules/host.py: the Host record *)
(* (hostname, user, groups, variables), the Hosts registry (an ordered     *)
(* list of Host), the grouped-list (ini) parser and serializer, the        *)
(* flat-JSON serializer and the source loader.                             *)
(*                                                                         *)
(* Representation.                                                         *)
(*   - a Python dict is a sequence of <<key, value>> pairs with distinct   *)
(*     keys, in insertion order;                                           *)
(*   - a Python set is a TLA+ set; where the code iterates over a set the  *)
(*     iteration order is an argument drawn from every order of the set;   *)
(*   - a Host is a record, a Hosts registry is the sequence self.hosts.    *)
(***************************************************************************)
EXTENDS Integers, Sequences, FiniteSets, TLC

VARIABLES
    hosts,          \* Hosts.hosts of the registry under test
    last,           \* the last call made, and what is remembered of it
    rec,            \* one Host, operated on directly
    ever,           \* the group names ever added to rec (at creation or later)
    pc,             \* where the grouped-list round trip or the load stands
    source_text,    \* the grouped-list text first parsed
    before,         \* the registry as the parser built it
    serialized,     \* the text Hosts._serialize_as_ini returned
    reloaded,       \* the registry parsed from the serialized text
    texts,          \* per format, the first text Hosts.serialize returned
    group_order,    \* the order in which the set of group names is iterated
    disk,           \* the files and directories Hosts.load looks at
    hostfiles,      \* Hosts.load: the worklist
    loaded_hosts    \* Hosts.load: the registries parsed so far

vars == <<hosts, last, rec, ever, pc, source_text, before, serialized,
          reloaded, texts, group_order, disk, hostfiles, loaded_hosts>>

registry_vars == <<hosts, last>>
record_vars == <<rec, ever>>
ini_vars == <<source_text, before, serialized, reloaded, texts, group_order>>
load_vars == <<disk, hostfiles, loaded_hosts>>

(***************************************************************************)
(* Bounds and the finite sets the inputs are drawn from.                   *)
(***************************************************************************)
MaxGroupArgs == 2
MaxSources == 2

Hostnames == {"host1", "host2"}
Groups == {"all", "ungrouped", "web"}
Users == {"root", "ops"}
\* Text is a sequence of atoms: the characters " ", "=", "[", "]", "\n", and
\* words, each standing for a run of characters that holds none of these.
\* Variable names and values are texts; a hostname, group or user is a word.
VarKeys == {<<"a">>}
VarVals == {<<"1">>}

(***************************************************************************)
(* Generic helpers.                                                        *)
(***************************************************************************)
Range(s) == {s[i] : i \in DOMAIN s}

\* Every sequence over S without repetition, of length at most n.
RECURSIVE DistinctSeqs(_, _)
DistinctSeqs(S, n) ==
    IF n = 0 \/ S = {} THEN {<<>>}
    ELSE {<<>>} \cup
         UNION {{<<x>> \o t : t \in DistinctSeqs(S \ {x}, n - 1)} : x \in S}

\* Every order in which a Python set S may be iterated.
Orders(S) == {s \in DistinctSeqs(S, Cardinality(S)) : Len(s) = Cardinality(S)}

\* Python: key in d
DictHas(d, k) == \E i \in DOMAIN d : d[i][1] = k

\* Python: d[k] = v (an existing key keeps its position)
DictSet(d, k, v) ==
    IF DictHas(d, k)
    THEN [i \in DOMAIN d |-> IF d[i][1] = k THEN <<k, v>> ELSE d[i]]
    ELSE Append(d, <<k, v>>)

\* The dict as a bag of key/value pairs, order forgotten.
DictItems(d) == Range(d)

(***************************************************************************)
(* class Host                                                              *)
(***************************************************************************)
RECURSIVE DictUpdate(_, _)
\* for key, value in vars.items(): self.variables[key] = value
DictUpdate(d, items) ==
    IF items = <<>> THEN d
    ELSE DictUpdate(DictSet(d, items[1][1], items[1][2]), Tail(items))

\* Host.__init__: groups and vars are the lists/dicts passed (<<>> for None).
Host__init__(hostname, user, groups, variables) ==
    [hostname  |-> hostname,
     user      |-> user,
     groups    |-> Range(IF groups = <<>> THEN <<"ungrouped">> ELSE groups),
     variables |-> DictUpdate(<<>>, variables)]

\* Host.__eq__ against another Host
Host__eq__(self, other) == other.hostname = self.hostname

\* Host.__eq__ against a str
Host__eq__str(self, name) == name = self.hostname

\* Host.has_group
has_group(self, group_name) ==
    group_name = "all" \/ group_name \in self.groups

\* Host.add_group
add_group(self, group_name) ==
    LET evicted == IF group_name \notin {"all", "ungrouped"}
                      /\ "ungrouped" \in self.groups
                   THEN self.groups \ {"ungrouped"}
                   ELSE self.groups
    IN  [self EXCEPT !.groups = evicted \cup {group_name}]

\* Host.remove_group raises KeyError when the name is not in the set.
remove_group_raises(self, group_name) == group_name \notin self.groups

\* Host.remove_group, when it does not raise
remove_group(self, group_name) ==
    [self EXCEPT !.groups = self.groups \ {group_name}]

\* Host.set_variable
set_variable(self, var_name, value) ==
    [self EXCEPT !.variables = DictSet(self.variables, var_name, value)]

\* Python: d.get(k) is true (the key is there and its value is not empty)
DictTruthy(d, k) == \E i \in DOMAIN d : d[i][1] = k /\ d[i][2] # <<>>

\* Host.remove_variable
remove_variable(self, var_name) ==
    IF DictTruthy(self.variables, var_name)
    THEN [self EXCEPT !.variables =
            SelectSeq(self.variables, LAMBDA item : item[1] # var_name)]
    ELSE self

RECURSIVE add_groups(_, _)
\* [host.add_group(group) for group in groups]
add_groups(self, groups) ==
    IF groups = <<>> THEN self
    ELSE add_groups(add_group(self, groups[1]), Tail(groups))

(***************************************************************************)
(* class Hosts: self is the list self.hosts.                               *)
(***************************************************************************)
\* hostname in self.hosts (list membership through Host.__eq__)
has_host(self, hostname) ==
    \E i \in DOMAIN self : Host__eq__str(self[i], hostname)

\* self.hosts.index(hostname): the first equal element (0: none)
index(self, hostname) ==
    IF has_host(self, hostname)
    THEN CHOOSE i \in DOMAIN self :
            /\ Host__eq__str(self[i], hostname)
            /\ \A j \in 1..(i - 1) : ~Host__eq__str(self[j], hostname)
    ELSE 0

\* Hosts.get_host, for a hostname the registry holds
get_host(self, hostname) == self[index(self, hostname)]

\* Hosts.add_host without its membership test.
add_host_unguarded(self, host, groups, user) ==
    Append(self, add_groups([Host__init__(host, "", <<>>, <<>>)
                                EXCEPT !.user = user], groups))

\* Hosts.add_host called with a hostname (str)
add_host(self, host, groups, user) ==
    IF ~has_host(self, host)
    THEN Append(self, add_groups([Host__init__(host, "", <<>>, <<>>)
                                     EXCEPT !.user = user], groups))
    ELSE self

\* Hosts.add_host called with a Host object (as merge_hosts does)
add_host_obj(self, host, groups, user) ==
    IF ~has_host(self, host.hostname)
    THEN Append(self, add_groups([host EXCEPT !.user = user], groups))
    ELSE self

\* Hosts.remove_host
remove_host(self, hostname) ==
    IF ~has_host(self, hostname) THEN self
    ELSE LET i == index(self, hostname)
         IN  SubSeq(self, 1, i - 1) \o SubSeq(self, i + 1, Len(self))

\* Hosts.get_hosts
get_hosts(self, group_name) ==
    SelectSeq(self, LAMBDA host : group_name \in host.groups)

\* Hosts.get_hostnames
get_hostnames(self) == [i \in DOMAIN self |-> self[i].hostname]

RECURSIVE get_groups_loop(_, _)
get_groups_loop(self, groups) ==
    IF self = <<>> THEN groups
    ELSE get_groups_loop(Tail(self), groups \cup self[1].groups)

\* Hosts.get_groups that leaves the name "all" out.
get_groups_without_all(self) == get_groups_loop(self, {}) \ {"all"}

\* Hosts.get_groups: the names as a set; the list the code returns is one of
\* Orders(get_groups(self)).
get_groups(self) == get_groups_loop(self, {})

RECURSIVE filter_extend(_, _, _)
\* [hosts.extend(self.get_hosts(group)) for group in groups]
filter_extend(self, groups, acc) ==
    IF groups = <<>> THEN acc
    ELSE filter_extend(self, Tail(groups), acc \o get_hosts(self, groups[1]))

\* Hosts.filter: the hosts list of the registry it returns
filter(self, groups) ==
    IF groups = <<>> THEN <<>> ELSE filter_extend(self, groups, <<>>)

RECURSIVE merge_holder(_, _)
\* for host in host_holder.hosts: if host not in self.hosts: self.add_host(host)
merge_holder(self, holder) ==
    IF holder = <<>> THEN self
    ELSE merge_holder(
            IF ~has_host(self, holder[1].hostname)
            THEN add_host_obj(self, holder[1], <<>>, "root")
            ELSE self,
            Tail(holder))

RECURSIVE merge_holder_last_wins(_, _)
\* A merge in which a later definition of a hostname replaces the earlier one.
merge_holder_last_wins(self, holder) ==
    IF holder = <<>> THEN self
    ELSE merge_holder_last_wins(
            IF ~has_host(self, holder[1].hostname)
            THEN add_host_obj(self, holder[1], <<>>, "root")
            ELSE [i \in DOMAIN self |->
                    IF self[i].hostname = holder[1].hostname
                    THEN [holder[1] EXCEPT !.user = "root"] ELSE self[i]],
            Tail(holder))

RECURSIVE merge_hosts_last_wins(_, _)
merge_hosts_last_wins(self, holders) ==
    IF holders = <<>> THEN self
    ELSE merge_hosts_last_wins(merge_holder_last_wins(self, holders[1]),
                               Tail(holders))

RECURSIVE merge_hosts(_, _)
\* Hosts.merge_hosts, given a list of registries
merge_hosts(self, holders) ==
    IF holders = <<>> THEN self
    ELSE merge_hosts(merge_holder(self, holders[1]), Tail(holders))

(***************************************************************************)
(* Hosts._serialize_as_json.  The text json.dumps writes is modelled by    *)
(* the dict it is given: a sequence of <<group, entries>>, each entry the  *)
(* serial_host of one Host (its hostname, group names and variables).      *)
(***************************************************************************)
\* Python: d.get(k), for a dict of lists (<<>> stands for None too: the code
\* only tests the result for truth)
DictGet(d, k) ==
    IF DictHas(d, k) THEN d[CHOOSE i \in DOMAIN d : d[i][1] = k][2] ELSE <<>>

serial_host(host) ==
    [hostname |-> host.hostname, groups |-> host.groups,
     variables |-> host.variables]

RECURSIVE json_hosts_loop(_, _, _)
\* for host in self.get_hosts(group): ...   st = [hosts, all_hosts]
json_hosts_loop(members, group, st) ==
    IF members = <<>> THEN st
    ELSE LET host == members[1]
             h1 == IF group # "all"
                   THEN DictSet(st.hosts, group,
                                Append(DictGet(st.hosts, group), serial_host(host)))
                   ELSE st.hosts
             new == host.hostname \notin st.all_hosts
             h2 == IF new
                   THEN DictSet(h1, "all",
                                Append(DictGet(h1, "all"), serial_host(host)))
                   ELSE h1
         IN  json_hosts_loop(Tail(members), group,
                 [hosts |-> h2,
                  all_hosts |-> IF new THEN st.all_hosts \cup {host.hostname}
                                ELSE st.all_hosts])

RECURSIVE json_groups_loop(_, _, _)
\* for group in self.get_groups(): ...
json_groups_loop(self, order, st) ==
    IF order = <<>> THEN st
    ELSE LET group == order[1]
             st1 == IF DictGet(st.hosts, group) = <<>>
                    THEN [st EXCEPT !.hosts = DictSet(st.hosts, group, <<>>)]
                    ELSE st
         IN  json_groups_loop(self, Tail(order),
                 json_hosts_loop(get_hosts(self, group), group, st1))

\* Hosts._serialize_as_json; order is the order get_groups() lists the names in
\* (one of Orders(get_groups(self))).
_serialize_as_json(self, order) ==
    json_groups_loop(self, order,
        [hosts |-> << <<"all", <<>>>> >>, all_hosts |-> {}]).hosts

(***************************************************************************)
(* The registry under test and the calls made on it.                       *)
(***************************************************************************)
GroupLists == DistinctSeqs(Groups, MaxGroupArgs)

\* The registries handed to merge_hosts: each built by the registry's own
\* operations, so with one Host per hostname.
SourceHosts ==
    {Host__init__(h, "", <<>>, <<>>) : h \in Hostnames}
    \cup {Host__init__("host1", "ops", <<"web">>, << <<(<<"a">>), (<<"1">>)>> >>)}

SourceRegs ==
    {r \in DistinctSeqs(SourceHosts, Cardinality(Hostnames)) :
        \A i, j \in DOMAIN r : i # j => r[i].hostname # r[j].hostname}

RECURSIVE SeqsUpTo(_, _)
SeqsUpTo(S, n) ==
    IF n = 0 THEN {<<>>}
    ELSE {<<>>} \cup {<<x>> \o t : x \in S, t \in SeqsUpTo(S, n - 1)}

SourceLists == SeqsUpTo(SourceRegs, MaxSources)

Called(op, host, flag, srcs) ==
    [op |-> op, host |-> host, flag |-> flag, srcs |-> srcs]

NoHost == [hostname |-> "", user |-> "", groups |-> {}, variables |-> <<>>]

\* What the variables a specification does not use are left at.
RecordIdle == rec = NoHost /\ ever = {}
IniIdle ==
    /\ source_text = <<>> /\ before = <<>> /\ serialized = <<>>
    /\ reloaded = <<>> /\ texts = <<>> /\ group_order = <<>>
LoadIdle == disk = <<>> /\ hostfiles = <<>> /\ loaded_hosts = <<>>

Init ==
    /\ hosts = <<>>
    /\ last = Called("init", "", FALSE, <<>>)
    /\ pc = "registry"
    /\ RecordIdle /\ IniIdle /\ LoadIdle

RegistryFrame == UNCHANGED <<pc, record_vars, ini_vars, load_vars>>

\* inventory.add_host(hostname, groups, user); flag: the hostname was present
AddHost(h, gs, u) ==
    /\ hosts' = add_host(hosts, h, gs, u)
    /\ last' = Called("add_host", h, has_host(hosts, h), <<>>)
    /\ RegistryFrame

\* inventory.remove_host(hostname)
RemoveHost(h) ==
    /\ hosts' = remove_host(hosts, h)
    /\ last' = Called("remove_host", "", has_host(hosts, h), <<>>)
    /\ RegistryFrame

\* Replace the Host of hostname h (the object get_host returned) by new.
Update(self, h, new) ==
    [i \in DOMAIN self |-> IF i = index(self, h) THEN new ELSE self[i]]

\* inventory.get_host(hostname).add_group(group)
AddGroup(h, g) ==
    /\ has_host(hosts, h)
    /\ hosts' = Update(hosts, h, add_group(get_host(hosts, h), g))
    /\ last' = Called("add_group", "", FALSE, <<>>)
    /\ RegistryFrame

\* inventory.get_host(hostname).remove_group(group); flag: KeyError was raised
RemoveGroup(h, g) ==
    /\ has_host(hosts, h)
    /\ LET host == get_host(hosts, h)
       IN  /\ hosts' = IF remove_group_raises(host, g) THEN hosts
                       ELSE Update(hosts, h, remove_group(host, g))
           /\ last' = Called("remove_group", "",
                             remove_group_raises(host, g), <<>>)
    /\ RegistryFrame

\* inventory.get_host(hostname).set_variable(key, value)
SetVariable(h, k, v) ==
    /\ has_host(hosts, h)
    /\ hosts' = Update(hosts, h, set_variable(get_host(hosts, h), k, v))
    /\ last' = Called("set_variable", "", FALSE, <<>>)
    /\ RegistryFrame

\* inventory.merge_hosts(sources); flag: the registry was empty, and then the
\* sources are remembered
MergeFrom(srcs) ==
    /\ hosts' = merge_hosts(hosts, srcs)
    /\ last' = Called("merge_hosts", "", hosts = <<>>,
                      IF hosts = <<>> THEN srcs ELSE <<>>)
    /\ RegistryFrame

Next ==
    \/ \E h \in Hostnames, gs \in GroupLists, u \in Users : AddHost(h, gs, u)
    \/ \E h \in Hostnames : RemoveHost(h)
    \/ \E h \in Hostnames, g \in Groups : AddGroup(h, g)
    \/ \E h \in Hostnames, g \in Groups : RemoveGroup(h, g)
    \/ \E h \in Hostnames, k \in VarKeys, v \in VarVals : SetVariable(h, k, v)
    \/ \E srcs \in SourceLists : MergeFrom(srcs)

Spec == Init /\ [][Next]_vars

(***************************************************************************)
(* Properties of the registry.                                             *)
(***************************************************************************)
NoDuplicates(names) ==
    \A i, j \in DOMAIN names : i # j => names[i] # names[j]

\* C1: in every registry reachable by add_host, remove_host, add_group,
\* remove_group and merge_hosts, get_hosts("all") returns every Host of the
\* registry, in registry order, whether or not "all" is in its stored groups.
C1_AllReturnsEveryRecord == get_hosts(hosts, "all") = hosts

\* C3: when the registry already holds hostname h, add_host(h, groups, user)
\* returns the registry as it was (same sequence, same user, groups and
\* variables of every Host), for any groups and user; so a second add_host of
\* the same hostname changes nothing the first one left.
C3_AddHostIdempotent ==
    \A h \in Hostnames, gs \in GroupLists, u \in Users :
        /\ has_host(hosts, h) => add_host(hosts, h, gs, u) = hosts
        /\ LET once == add_host(hosts, h, gs, u)
           IN  \A u2 \in Users : add_host(once, h, gs, u2) = once

\* C3 witness: add_host was called with a hostname the registry held, and the
\* Host it held carries a user, groups and variables of its own.
C3_Witness ==
    /\ last.op = "add_host" /\ last.flag
    /\ has_host(hosts, last.host)
    /\ get_host(hosts, last.host).variables # <<>>
    /\ get_host(hosts, last.host).user = "ops"
    /\ Len(hosts) = 2

\* The Hosts of the sources in the order merge_hosts visits them.
RECURSIVE Flatten(_)
Flatten(srcs) == IF srcs = <<>> THEN <<>> ELSE srcs[1] \o Flatten(Tail(srcs))

\* The place of the earliest definition of a hostname among the sources.
FirstSeen(flat, name) ==
    CHOOSE j \in DOMAIN flat :
        /\ flat[j].hostname = name
        /\ \A k \in 1..(j - 1) : flat[k].hostname # name

\* C4: after merge_hosts(S1, ..., Sn) into an empty registry every hostname of
\* a source occurs exactly once, the Hosts are in first-seen order across the
\* sources, and each Host has the groups and variables of the earliest source
\* that defines its hostname.
C4_MergeFirstWins ==
    (last.op = "merge_hosts" /\ last.flag) =>
        LET flat == Flatten(last.srcs)
        IN  /\ \A j \in DOMAIN flat :
                 Cardinality({i \in DOMAIN hosts :
                                 hosts[i].hostname = flat[j].hostname}) = 1
            /\ \A i \in DOMAIN hosts :
                 /\ \E j \in DOMAIN flat : flat[j].hostname = hosts[i].hostname
                 /\ LET first == flat[FirstSeen(flat, hosts[i].hostname)]
                    IN  /\ hosts[i].groups = first.groups
                        /\ DictItems(hosts[i].variables) = DictItems(first.variables)
            /\ \A i1, i2 \in DOMAIN hosts :
                 i1 < i2 => FirstSeen(flat, hosts[i1].hostname)
                              < FirstSeen(flat, hosts[i2].hostname)

\* C4 witness: a merge into an empty registry of sources of which two define
\* one hostname with different groups and variables, and another hostname.
C4_Witness ==
    /\ last.op = "merge_hosts" /\ last.flag
    /\ Len(hosts) = 2
    /\ LET flat == Flatten(last.srcs)
       IN  \E j, k \in DOMAIN flat :
              /\ j < k
              /\ flat[j].hostname = flat[k].hostname
              /\ flat[j].groups # flat[k].groups
              /\ flat[j].variables # flat[k].variables

\* C5: filter(groups) returns a registry holding exactly the Hosts that are in
\* at least one requested group, each hostname at most once, and an empty
\* registry when groups is empty.  Membership is taken as the stored group
\* set, the reading get_hosts implements.
C5_FilterUnionWithoutDuplicates ==
    \A gs \in GroupLists :
        LET r == filter(hosts, gs)
        IN  /\ gs = <<>> => r = <<>>
            /\ NoDuplicates(get_hostnames(r))
            /\ Range(r) = {hosts[i] : i \in {k \in DOMAIN hosts :
                                        hosts[k].groups \cap Range(gs) # {}}}

\* The hostnames a key of the flat-JSON dict lists.
Listed(json, key) ==
    LET entries == DictGet(json, key)
    IN  [i \in DOMAIN entries |-> entries[i].hostname]

\* C8: in the flat-JSON output of a registry reachable by add_host, add_group,
\* remove_group and merge_hosts the "all" key lists every Host exactly once
\* and every other group key lists exactly the members of that group.
C8_JsonAllListsEveryRecord ==
    \A order \in Orders(get_groups(hosts)) :
        LET json == _serialize_as_json(hosts, order)
        IN  /\ NoDuplicates(Listed(json, "all"))
            /\ Range(Listed(json, "all")) = Range(get_hostnames(hosts))
            /\ \A n \in DOMAIN json :
                 json[n][1] # "all" =>
                    /\ NoDuplicates(Listed(json, json[n][1]))
                    /\ Range(Listed(json, json[n][1]))
                         = {hosts[i].hostname : i \in {k \in DOMAIN hosts :
                                 json[n][1] \in hosts[k].groups}}

\* The group names stored on the Hosts of a registry.
StoredGroups(self) == {g \in Groups : \E i \in DOMAIN self : g \in self[i].groups}

\* C10 as stated: get_groups() returns exactly the stored group names and
\* never contains "all", also after add_host or add_group with "all".
C10_GroupNamesNeverAll ==
    /\ get_groups(hosts) = StoredGroups(hosts)
    /\ "all" \notin get_groups(hosts)

\* C10 amended: get_groups() returns exactly the group names stored on the
\* Hosts; it contains "all" exactly when some Host stores "all".
C10_GroupNamesAreStoredNames ==
    /\ get_groups(hosts) = StoredGroups(hosts)
    /\ "all" \in get_groups(hosts) <=> \E i \in DOMAIN hosts : "all" \in hosts[i].groups

\* C10 witness: add_host has just added a Host with the group "all", beside a
\* Host that does not store it, and get_groups() lists "all".
C10_Witness ==
    /\ last.op = "add_host" /\ ~last.flag
    /\ Len(hosts) = 2
    /\ "all" \in hosts[2].groups
    /\ "all" \notin hosts[1].groups
    /\ "all" \in get_groups(hosts)

(***************************************************************************)
(* One Host operated on directly: created as Hosts.add_host creates it     *)
(* (Host(hostname=host), the only construction in the repository), then    *)
(* any sequence of add_group, remove_group, set_variable, remove_variable. *)
(***************************************************************************)
RecordInit ==
    /\ \E h \in Hostnames : rec = Host__init__(h, "", <<>>, <<>>)
    /\ ever = {"ungrouped"}
    /\ last = Called("Host", "", FALSE, <<>>)
    /\ hosts = <<>>
    /\ pc = "record"
    /\ IniIdle /\ LoadIdle

RecordFrame == UNCHANGED <<hosts, pc, ini_vars, load_vars>>

\* host.add_group(group)
RecAddGroup(g) ==
    /\ rec' = add_group(rec, g)
    /\ ever' = ever \cup {g}
    /\ last' = Called("add_group", "", FALSE, <<>>)
    /\ RecordFrame

\* host.remove_group(group); flag: KeyError was raised
RecRemoveGroup(g) ==
    /\ rec' = IF remove_group_raises(rec, g) THEN rec ELSE remove_group(rec, g)
    /\ last' = Called("remove_group", "", remove_group_raises(rec, g), <<>>)
    /\ UNCHANGED ever
    /\ RecordFrame

\* host.set_variable(key, value)
RecSetVariable(k, v) ==
    /\ rec' = set_variable(rec, k, v)
    /\ last' = Called("set_variable", "", FALSE, <<>>)
    /\ UNCHANGED ever
    /\ RecordFrame

\* host.remove_variable(key)
RecRemoveVariable(k) ==
    /\ rec' = remove_variable(rec, k)
    /\ last' = Called("remove_variable", "", FALSE, <<>>)
    /\ UNCHANGED ever
    /\ RecordFrame

RecordNext ==
    \/ \E g \in Groups : RecAddGroup(g)
    \/ \E g \in Groups : RecRemoveGroup(g)
    \/ \E k \in VarKeys, v \in VarVals \cup {<<>>} : RecSetVariable(k, v)
    \/ \E k \in VarKeys : RecRemoveVariable(k)

SpecRecord == RecordInit /\ [][RecordNext]_vars

\* C2: after creation and any sequence of add_group and remove_group calls
\* (add_group("all") and add_group("ungrouped") among them) "ungrouped" is in
\* the Host's groups if and only if no other group has ever been added to it.
\* The virtual group "all" is not counted as another group.
C2_UngroupedIffNoOtherGroup ==
    "ungrouped" \in rec.groups <=> ever \ {"ungrouped", "all"} = {}

\* C9: no sequence of operations on a Host leaves its group set empty.
C9_GroupsNeverEmpty == rec.groups # {}

(***************************************************************************)
(* Text.  A str is the sequence of its atoms (see VarKeys).                *)
(***************************************************************************)
SP == " "
EQ == "="
LB == "["
RB == "]"
NL == "\n"
Whitespace == {SP, NL}

\* A word of the characters [a-zA-Z0-9.-], which line_is_host_regex accepts.
\* ("ansible_user" is a word too; it never starts a line.)
IsWord(atom) == atom \notin {SP, EQ, LB, RB, NL}

\* Python: str(x) of a hostname, group or user
Text(word) == IF word = "" THEN <<>> ELSE <<word>>

RECURSIVE Split(_, _)
\* Python: s.split(sep), for a separator of one character
Split(s, sep) ==
    IF \A i \in DOMAIN s : s[i] # sep THEN <<s>>
    ELSE LET p == CHOOSE i \in DOMAIN s :
                     s[i] = sep /\ \A j \in 1..(i - 1) : s[j] # sep
         IN  <<SubSeq(s, 1, p - 1)>> \o Split(SubSeq(s, p + 1, Len(s)), sep)

RECURSIVE Join(_, _)
\* Python: sep.join(parts)
Join(parts, sep) ==
    IF parts = <<>> THEN <<>>
    ELSE IF Len(parts) = 1 THEN parts[1]
    ELSE parts[1] \o <<sep>> \o Join(Tail(parts), sep)

RECURSIVE rstrip(_)
\* Python: s.rstrip()
rstrip(s) ==
    IF s # <<>> /\ s[Len(s)] \in Whitespace
    THEN rstrip(SubSeq(s, 1, Len(s) - 1)) ELSE s

RECURSIVE readlines(_)
\* file.readlines(): the lines, each with the "\n" that ends it
readlines(s) ==
    IF s = <<>> THEN <<>>
    ELSE IF \A i \in DOMAIN s : s[i] # NL THEN <<s>>
    ELSE LET p == CHOOSE i \in DOMAIN s :
                     s[i] = NL /\ \A j \in 1..(i - 1) : s[j] # NL
         IN  <<SubSeq(s, 1, p)>> \o readlines(SubSeq(s, p + 1, Len(s)))

(***************************************************************************)
(* Hosts._load_from_ini                                                    *)
(***************************************************************************)
\* line_is_section_header_regex = ^\[(?P<section>[^\[\]]+)\]
\* The place of the closing bracket (0: no match).
header_end(line) ==
    IF Len(line) >= 3 /\ line[1] = LB
       /\ \E p \in 3..Len(line) :
             line[p] = RB /\ \A q \in 2..(p - 1) : line[q] \notin {LB, RB}
    THEN CHOOSE p \in 3..Len(line) :
             line[p] = RB /\ \A q \in 2..(p - 1) : line[q] \notin {LB, RB}
    ELSE 0

\* The section of a header line; the section names of this model are one word.
section(line) == line[2]

\* line_is_host_regex = ^\s*(?P<host>[a-zA-Z0-9.-]+)
\* The place of the hostname (0: no match).
host_start(line) ==
    IF \E p \in DOMAIN line :
          IsWord(line[p]) /\ \A q \in 1..(p - 1) : line[q] \in Whitespace
    THEN CHOOSE p \in DOMAIN line :
          IsWord(line[p]) /\ \A q \in 1..(p - 1) : line[q] \in Whitespace
    ELSE 0

RECURSIVE ini_variables(_, _)
\* for variable in host_variables[1:]: key, value = variable.split("=") ...
\* st = [host, error]; error: the unpacking raised ValueError
ini_variables(tokens, st) ==
    IF tokens = <<>> \/ st.error THEN st
    ELSE LET parts == Split(tokens[1], EQ)
         IN  IF Len(parts) # 2 THEN [st EXCEPT !.error = TRUE]
             ELSE ini_variables(Tail(tokens),
                    [st EXCEPT !.host =
                        set_variable(st.host, parts[1], rstrip(parts[2]))])

\* One turn of `for line in _in_file.readlines()`.
\* st = [hosts, current_group, error]
ini_line(line, st) ==
    LET group == IF header_end(line) # 0 THEN section(line)
                 ELSE st.current_group
    IN  IF host_start(line) = 0
        THEN [st EXCEPT !.current_group = group]
        ELSE LET hostname == line[host_start(line)]
                 known == IF ~has_host(st.hosts, hostname)
                          THEN add_host(st.hosts, hostname, <<>>, "root")
                          ELSE st.hosts
                 host == add_group(get_host(known, hostname), group)
                 host_variables == Split(line, SP)
                 done == ini_variables(Tail(host_variables),
                                       [host |-> host, error |-> FALSE])
             IN  [hosts |-> [i \in DOMAIN known |->
                               IF i = index(known, hostname) THEN done.host
                               ELSE known[i]],
                  current_group |-> group,
                  error |-> done.error]

RECURSIVE ini_lines(_, _)
ini_lines(lines, st) ==
    IF lines = <<>> \/ st.error THEN st
    ELSE ini_lines(Tail(lines), ini_line(lines[1], st))

\* Hosts._load_from_ini on a file holding text: [hosts, error]; with error
\* the call raised and there is no registry.
_load_from_ini(text) ==
    LET st == ini_lines(readlines(text),
                 [hosts |-> <<>>, current_group |-> "ungrouped", error |-> FALSE])
    IN  [hosts |-> IF st.error THEN <<>> ELSE st.hosts, error |-> st.error]

(***************************************************************************)
(* Host._serialize_as_ini and Hosts._serialize_as_ini                      *)
(***************************************************************************)
\* Host._serialize_as_ini: the Host as the call leaves it
host_after_ini(self) ==
    IF self.user # ""
    THEN set_variable(self, <<"ansible_user">>, Text(self.user))
    ELSE self

\* Host._serialize_as_ini: the line it returns
host_serialize_as_ini(self) ==
    LET variables == host_after_ini(self).variables
    IN  Join(<<Text(self.hostname)>>
             \o [i \in DOMAIN variables |->
                    variables[i][1] \o <<EQ>> \o variables[i][2]],
             SP)

\* The places of the Hosts self.get_hosts(group_name) returns, in order.
RECURSIVE places(_, _, _)
places(self, group_name, i) ==
    IF i > Len(self) THEN <<>>
    ELSE (IF group_name \in self[i].groups THEN <<i>> ELSE <<>>)
         \o places(self, group_name, i + 1)

RECURSIVE ini_emit(_, _)
\* for host in self.get_hosts(group_name):
\*     config_as_list.append(host._serialize_as_ini())
\* st = [hosts, config_as_list]; at: the places of the group's Hosts
ini_emit(at, st) ==
    IF at = <<>> THEN st
    ELSE ini_emit(Tail(at),
            [hosts |-> [st.hosts EXCEPT ![at[1]] = host_after_ini(@)],
             config_as_list |->
                 Append(st.config_as_list,
                        host_serialize_as_ini(st.hosts[at[1]]))])

RECURSIVE ini_groups(_, _)
\* for group_name in self.get_groups(): ...
ini_groups(order, st) ==
    IF order = <<>> THEN st
    ELSE IF order[1] = "ungrouped" THEN ini_groups(Tail(order), st)
    ELSE ini_groups(Tail(order),
            ini_emit(places(st.hosts, order[1], 1),
                     [st EXCEPT !.config_as_list =
                         st.config_as_list
                         \o <<(<<>>), (<<LB>> \o Text(order[1]) \o <<RB>>)>>]))

\* Hosts._serialize_as_ini: [text, hosts], the str returned and the registry
\* as the call leaves it; order is the order get_groups() lists the names in.
_serialize_as_ini(self, order) ==
    LET st == ini_groups(order,
                 ini_emit(places(self, "ungrouped", 1),
                          [hosts |-> self, config_as_list |-> <<>>]))
    IN  [text |-> Join(st.config_as_list, NL), hosts |-> st.hosts]

(***************************************************************************)
(* The grouped-list round trip: a text is parsed, the registry serialized  *)
(* and the text it gives parsed again.                                     *)
(***************************************************************************)
MaxLines == 3

IniLines ==
    {<<"host1">>,
     <<"host2", SP, "a", EQ, "1">>,
     <<LB, "web", RB>>,
     <<LB, "all", RB>>,
     <<>>,
     <<"host1", SP, "a", EQ, "1", EQ, "2">>,
     <<"host2", SP, "a">>}

\* The files: up to MaxLines lines, with or without a final newline.
SourceTexts ==
    {Join(ls, NL) \o end : ls \in SeqsUpTo(IniLines, MaxLines),
                           end \in {<<>>, <<NL>>}}

IniInit ==
    /\ source_text \in SourceTexts
    /\ pc = "text"
    /\ hosts = <<>> /\ before = <<>> /\ serialized = <<>> /\ reloaded = <<>>
    /\ texts = <<>> /\ group_order = <<>>
    /\ last = Called("init", "", FALSE, <<>>)
    /\ RecordIdle /\ LoadIdle

IniFrame == UNCHANGED <<last, record_vars, load_vars>>

\* hosts = Hosts._load_from_ini(file)
LoadIni ==
    /\ pc = "text"
    /\ LET got == _load_from_ini(source_text)
       IN  /\ pc' = IF got.error THEN "ValueError" ELSE "loaded"
           /\ hosts' = got.hosts
           /\ before' = got.hosts
    /\ UNCHANGED <<source_text, serialized, reloaded, texts, group_order>>
    /\ IniFrame

\* text = hosts.serialize("ini")
SerializeIni(order) ==
    /\ pc = "loaded"
    /\ LET got == _serialize_as_ini(hosts, order)
       IN  /\ serialized' = got.text
           /\ hosts' = got.hosts
    /\ pc' = "serialized"
    /\ UNCHANGED <<source_text, before, reloaded, texts, group_order>>
    /\ IniFrame

\* Hosts._load_from_ini(file holding the serialized text)
ReloadIni ==
    /\ pc = "serialized"
    /\ LET got == _load_from_ini(serialized)
       IN  /\ pc' = IF got.error THEN "reload ValueError" ELSE "reloaded"
           /\ reloaded' = got.hosts
    /\ UNCHANGED <<source_text, before, serialized, hosts, texts, group_order>>
    /\ IniFrame

IniNext ==
    \/ LoadIni
    \/ \E order \in Orders(get_groups(hosts)) : SerializeIni(order)
    \/ ReloadIni

SpecIni == IniInit /\ [][IniNext]_vars

\* Two registries hold the same hostnames, and per hostname the same group
\* set and the same bag of variables.
SameInventory(a, b) ==
    /\ Range(get_hostnames(a)) = Range(get_hostnames(b))
    /\ \A i \in DOMAIN a, j \in DOMAIN b :
         a[i].hostname = b[j].hostname =>
            /\ a[i].groups = b[j].groups
            /\ DictItems(a[i].variables) = DictItems(b[j].variables)

\* C6: for every registry the grouped-list parser built, serializing it to
\* grouped-list text and parsing that text again yields a registry with the
\* same hostnames, group set per host and variable bag per host as the
\* registry had before it was serialized.
C6_IniRoundTrip ==
    /\ pc # "reload ValueError"
    /\ pc = "reloaded" => SameInventory(before, reloaded)

\* The place of the first "=" of a token (0: none).
first_eq(token) ==
    IF \E p \in DOMAIN token : token[p] = EQ
    THEN CHOOSE p \in DOMAIN token :
            token[p] = EQ /\ \A q \in 1..(p - 1) : token[q] # EQ
    ELSE 0

\* The text before the first "=" of a token, and all the text after it.
KeyOf(token) == SubSeq(token, 1, first_eq(token) - 1)
ValueOf(token) == SubSeq(token, first_eq(token) + 1, Len(token))

\* The tokens that follow the hostname on a host line (the newline that ends
\* the line is no part of it).
TrailingTokens(line) ==
    Tail(Split(rstrip(SubSeq(line, host_start(line), Len(line))), SP))

\* The trailing tokens of the host lines of source_text, in file order:
\* <<i, j, hostname, token>> is token j of line i.
Assignments ==
    LET lines == readlines(source_text)
    IN  UNION {{<<i, j, lines[i][host_start(lines[i])], TrailingTokens(lines[i])[j]>> :
                    j \in DOMAIN TrailingTokens(lines[i])} :
               i \in {k \in DOMAIN lines : host_start(lines[k]) # 0}}

\* No later token of the file sets the same variable of the same host.
LastAssignment(a) ==
    \A b \in Assignments :
        (b[3] = a[3] /\ KeyOf(b[4]) = KeyOf(a[4])) =>
            (b[1] < a[1] \/ (b[1] = a[1] /\ b[2] <= a[2]))

\* C11: when every trailing token of every host line of the file holds an
\* "=", the parse does not fail, and each token sets on its host the variable
\* named by the text before its first "=" to all the text after that "=",
\* further "=" included (the last token for a variable is the one that stays).
C11_SplitOnFirstEquals ==
    (pc # "text" /\ \A a \in Assignments : first_eq(a[4]) # 0) =>
        /\ pc # "ValueError"
        /\ \A a \in Assignments :
              LastAssignment(a) =>
                 /\ has_host(before, a[3])
                 /\ <<KeyOf(a[4]), ValueOf(a[4])>>
                        \in DictItems(get_host(before, a[3]).variables)

\* The same, for the files whose tokens hold one "=" each.
C11_Single ==
    (\A a \in Assignments : Len(Split(a[4], EQ)) = 2) => C11_SplitOnFirstEquals

(***************************************************************************)
(* Hosts._serialize_as_yaml and Hosts.serialize.  yaml.dump sorts the keys *)
(* of every mapping and VerboseSafeDumper writes no anchors, so the text   *)
(* is given by the document as unordered mappings: a set of <<group,       *)
(* hosts>>, hosts a set of <<hostname, entry>>, entry the set of the       *)
(* host_entry's items ({} for None, which is written as nothing).          *)
(***************************************************************************)
\* if host.user and not host.variables.get('ansible_user')
yaml_adds_user(host) ==
    host.user # "" /\ ~DictTruthy(host.variables, <<"ansible_user">>)

\* host_entry as it is put into the document
yaml_host_entry(host) ==
    IF yaml_adds_user(host)
    THEN DictSet(host.variables, <<"ansible_user">>, Text(host.user))
    ELSE host.variables

\* The Host as one turn of the loop leaves it: host_entry is host.variables
\* itself when that dict is not empty, and a new dict when it is.
host_after_yaml(host) ==
    IF host.variables # <<>>
    THEN [host EXCEPT !.variables = yaml_host_entry(host)]
    ELSE host

RECURSIVE yaml_emit(_, _, _)
\* for host in self.get_hosts(group_name): ...
\* st = [hosts, groups]; at: the places of the group's Hosts
yaml_emit(at, group_name, st) ==
    IF at = <<>> THEN st
    ELSE yaml_emit(Tail(at), group_name,
            [hosts |-> [st.hosts EXCEPT ![at[1]] = host_after_yaml(@)],
             groups |->
                 DictSet(st.groups, group_name,
                    DictSet(DictGet(st.groups, group_name),
                            st.hosts[at[1]].hostname,
                            yaml_host_entry(st.hosts[at[1]])))])

RECURSIVE yaml_groups_loop(_, _)
\* for group_name in self.get_groups(): groups[group_name] = {'hosts': {}} ...
yaml_groups_loop(order, st) ==
    IF order = <<>> THEN st
    ELSE yaml_groups_loop(Tail(order),
            yaml_emit(places(st.hosts, order[1], 1), order[1],
                      [st EXCEPT !.groups = DictSet(@, order[1], <<>>)]))

\* yaml.dump(groups, Dumper=VerboseSafeDumper): the keys sorted
yaml_dump(groups) ==
    {<<groups[g][1],
       {<<groups[g][2][h][1], DictItems(groups[g][2][h][2])>> :
            h \in DOMAIN groups[g][2]}>> : g \in DOMAIN groups}

\* Hosts._serialize_as_yaml: [text, hosts]
_serialize_as_yaml(self, order) ==
    LET st == yaml_groups_loop(order, [hosts |-> self, groups |-> <<>>])
    IN  [text |-> yaml_dump(st.groups), hosts |-> st.hosts]

\* format.lower(), for the formats of this model
lower(format) == IF format = "JSON" THEN "json" ELSE format

\* Hosts.serialize: [text, hosts, error]; error: ValueError was raised
serialize(self, format, order) ==
    IF lower(format) = "ini"
    THEN [text |-> _serialize_as_ini(self, order).text,
          hosts |-> _serialize_as_ini(self, order).hosts, error |-> FALSE]
    ELSE IF lower(format) = "json"
    THEN [text |-> _serialize_as_json(self, order),
          hosts |-> self, error |-> FALSE]
    ELSE IF lower(format) \in {"yaml", "yml"}
    THEN [text |-> _serialize_as_yaml(self, order).text,
          hosts |-> _serialize_as_yaml(self, order).hosts, error |-> FALSE]
    ELSE [text |-> <<>>, hosts |-> self, error |-> TRUE]

(***************************************************************************)
(* A registry is built and serialized, any number of times, in any format. *)
(***************************************************************************)
Formats == {"ini", "json", "JSON", "yaml", "yml", "toml"}

\* The branch of Hosts.serialize a format takes
Branch(format) ==
    IF lower(format) = "yml" THEN "yaml" ELSE lower(format)

\* The registries serialized: built by add_host and set_variable.
OneHostRegs ==
    {[i \in {1} |-> IF v THEN set_variable(r[i], <<"a">>, <<"1">>) ELSE r[i]] :
        r \in {add_host(<<>>, "host1", gs, u) : gs \in GroupLists, u \in Users},
        v \in BOOLEAN}

SerializeRegs ==
    {<<>>} \cup OneHostRegs
    \cup {add_host(r, "host2", <<"web">>, "root") : r \in OneHostRegs}

SerializeInit ==
    /\ hosts \in SerializeRegs
    /\ before = hosts
    /\ group_order \in Orders(get_groups(hosts))
    /\ pc = "serialize"
    /\ last = Called("init", "", FALSE, <<>>)
    /\ source_text = <<>> /\ serialized = <<>> /\ reloaded = <<>>
    /\ texts = <<>>
    /\ RecordIdle /\ LoadIdle

\* text = inventory.serialize(format).  get_groups() builds the same set of
\* names in every call (no serializer changes a Host's groups), and one
\* process iterates the same set in the same order: group_order.
Serialize(format) ==
    /\ pc = "serialize"
    /\ LET got == serialize(hosts, format, group_order)
       IN  /\ hosts' = got.hosts
           /\ serialized' = IF got.error THEN serialized ELSE got.text
           /\ texts' = IF got.error \/ Branch(format) \in DOMAIN texts
                       THEN texts
                       ELSE (Branch(format) :> got.text) @@ texts
           /\ last' = Called("serialize", format, got.error, <<>>)
    /\ UNCHANGED <<pc, source_text, before, reloaded, group_order>>
    /\ UNCHANGED <<record_vars, load_vars>>

SerializeNext == \E format \in Formats : Serialize(format)

SpecSerialize == SerializeInit /\ [][SerializeNext]_vars

\* C12, the registry: serialize leaves the sequence of Records and every
\* Record's hostname, user, groups and variables as they were.
C12_RegistryUnchanged == hosts = before

\* C12, the text: a format serialized again gives the text it gave the first
\* time, whatever was serialized in between.
C12_SameTextEachTime ==
    (/\ last.op = "serialize" /\ ~last.flag
     /\ Branch(last.host) \in DOMAIN texts)
        => serialized = texts[Branch(last.host)]

\* C12: serialize(format) for "ini", "yaml"/"yml" and "json" leaves the
\* registry unchanged (the same Records, each with the same hostname, user,
\* groups and variables), and so serializing the same registry again in a
\* format gives the same text as before, in any order of formats.
C12_SerializeLeavesRegistryUnchanged ==
    C12_RegistryUnchanged /\ C12_SameTextEachTime

(***************************************************************************)
(* Hosts._load_from_yaml.  What yaml.safe_load returns is the input: a     *)
(* dict (a sequence of <<group, raw_hosts>>), raw_hosts a dict that has a  *)
(* "hosts" key or not, its value a dict of hostname to host_details (a     *)
(* dict of variables, <<>> also for None).                                 *)
(***************************************************************************)
RECURSIVE yaml_hosts(_, _, _)
\* for hostname, host_details in raw_hosts.get("hosts").items(): ...
yaml_hosts(items, group, self) ==
    IF items = <<>> THEN self
    ELSE LET hostname == items[1][1]
             known == IF ~has_host(self, hostname)
                      THEN add_host(self, hostname, <<>>, "root") ELSE self
             host == add_group(
                        [get_host(known, hostname) EXCEPT !.variables =
                            DictUpdate(@, items[1][2])],
                        group)
         IN  yaml_hosts(Tail(items), group,
                [i \in DOMAIN known |->
                    IF i = index(known, hostname) THEN host ELSE known[i]])

RECURSIVE yaml_groups(_, _)
\* for group, raw_hosts in config.items(): ...
\* st = [hosts, error]; error: None has no attribute items
yaml_groups(config, st) ==
    IF config = <<>> \/ st.error THEN st
    ELSE IF ~config[1][2].has_hosts THEN [st EXCEPT !.error = TRUE]
    ELSE yaml_groups(Tail(config),
            [st EXCEPT !.hosts =
                yaml_hosts(config[1][2].hosts, config[1][1], st.hosts)])

\* Hosts._load_from_yaml on a file yaml.safe_load reads as config
_load_from_yaml(config) ==
    LET st == yaml_groups(config, [hosts |-> <<>>, error |-> FALSE])
    IN  [hosts |-> IF st.error THEN <<>> ELSE st.hosts, error |-> st.error]

(***************************************************************************)
(* Hosts.load.  A path is the sequence of its names, a name <<stem,        *)
(* suffix>>; the disk is the set of files and directories there are.       *)
(***************************************************************************)
MaxPaths == 2

Name(stem, suffix) == <<stem, suffix>>
Inv == <<Name("inv", "")>>
Dir(path) == [path |-> path, kind |-> "dir", data |-> <<>>]
File(path, data) == [path |-> path, kind |-> "file", data |-> data]

YamlConfigs ==
    {<< <<"web", [has_hosts |-> TRUE,
                  hosts |-> << <<"host1", << <<(<<"a">>), (<<"1">>)>> >> >> >>] >> >>,
     << <<"web", [has_hosts |-> FALSE, hosts |-> <<>>] >> >>}

IniFileTexts == {<<"host1", NL, LB, "web", RB, NL, "host2", NL>>,
                 <<"host2", SP, "a", NL>>}

Disks ==
    {{Dir(Inv)} \cup a \cup b \cup c \cup d :
        a \in {{}} \cup {{File(Inv \o <<Name("hosts", ".yaml")>>, y)} : y \in YamlConfigs},
        b \in {{}} \cup {{File(Inv \o <<Name("extra", ".ini")>>, t)} : t \in IniFileTexts},
        c \in {{}, {File(Inv \o <<Name("notes", ".txt")>>, <<>>)}},
        d \in {{},
               {Dir(Inv \o <<Name("old", ".yml")>>)},
               {Dir(Inv \o <<Name("old", ".yml")>>),
                File(Inv \o <<Name("old", ".yml"), Name("readme", ".md")>>, <<>>)},
               {Dir(Inv \o <<Name("old", ".yml")>>),
                File(Inv \o <<Name("old", ".yml"), Name("more", ".ini")>>,
                     <<"host2", NL>>)},
               {Dir(Inv \o <<Name("sub", "")>>),
                File(Inv \o <<Name("sub", ""), Name("deep", ".ini")>>,
                     <<"host1", NL>>)}}}

InputPaths ==
    {Inv,
     Inv \o <<Name("notes", ".txt")>>,
     Inv \o <<Name("extra", ".ini")>>,
     <<Name("gone", ".txt")>>}

\* The argument of load: a str, a Path or a list of them.
LoadArgs ==
    {[type |-> t, paths |-> <<p>>] : t \in {"str", "Path"}, p \in {Inv}}
    \cup {[type |-> "list", paths |-> ps] : ps \in SeqsUpTo(InputPaths, MaxPaths)}

\* Path.is_dir()
is_dir(d, path) == \E e \in d : e.path = path /\ e.kind = "dir"

\* open(path) succeeds
is_file(d, path) == \E e \in d : e.path = path /\ e.kind = "file"

\* what reading the file gives
contents(d, path) == (CHOOSE e \in d : e.path = path /\ e.kind = "file").data

\* Path.suffix
suffix(path) == path[Len(path)][2]

\* Path.glob('*' + suffix): the children with that suffix
glob(d, path, suf) ==
    {e.path : e \in {x \in d : /\ Len(x.path) = Len(path) + 1
                               /\ SubSeq(x.path, 1, Len(path)) = path
                               /\ x.path[Len(x.path)][2] = suf}}

\* Lines 146-153: the worklist made of the argument
worklist(arg) == arg.paths

LoadInit ==
    /\ pc = "call"
    /\ hosts = <<>>
    /\ last = Called("init", "", FALSE, <<>>)
    /\ RecordIdle /\ IniIdle /\ LoadIdle

LoadFrame == UNCHANGED <<last, disk, record_vars, ini_vars>>

\* Hosts.load(hostfiles) is called, on some disk: lines 146-155
LoadCall ==
    /\ pc = "call"
    /\ disk' \in Disks
    /\ \E arg \in LoadArgs :
          /\ hostfiles' = worklist(arg)
          /\ last' = Called("load", arg.type, FALSE, arg.paths)
    /\ loaded_hosts' = <<>>
    /\ hosts' = <<>>
    /\ pc' = "while"
    /\ UNCHANGED <<record_vars, ini_vars>>

\* The directory branch without its `continue`: the directory goes on to the
\* suffix test, and opening a directory raises.
LoadDirectory_no_continue ==
    /\ pc = "while" /\ hostfiles # <<>>
    /\ is_dir(disk, hostfiles[1])
    /\ \E yaml \in Orders(glob(disk, hostfiles[1], ".yaml")),
          yml \in Orders(glob(disk, hostfiles[1], ".yml")),
          ini \in Orders(glob(disk, hostfiles[1], ".ini")) :
          hostfiles' = Tail(hostfiles) \o yaml \o yml \o ini
    /\ pc' = IF suffix(hostfiles[1]) \in {".yml", ".yaml", ".ini"}
             THEN "raised" ELSE pc
    /\ UNCHANGED <<hosts, loaded_hosts>>
    /\ LoadFrame

\* hostfile.is_dir(): the children matching *.yaml, *.yml and *.ini are
\* appended, each glob in the order the directory lists them
LoadDirectory ==
    /\ pc = "while" /\ hostfiles # <<>>
    /\ is_dir(disk, hostfiles[1])
    /\ \E yaml \in Orders(glob(disk, hostfiles[1], ".yaml")),
          yml \in Orders(glob(disk, hostfiles[1], ".yml")),
          ini \in Orders(glob(disk, hostfiles[1], ".ini")) :
          hostfiles' = Tail(hostfiles) \o yaml \o yml \o ini
    /\ UNCHANGED <<pc, hosts, loaded_hosts>>
    /\ LoadFrame

\* What a parser call leaves: the registry appended, or the exception raised
Parsed(got) ==
    /\ pc' = IF got.error THEN "raised" ELSE "while"
    /\ loaded_hosts' = IF got.error THEN loaded_hosts
                       ELSE Append(loaded_hosts, got.hosts)
    /\ hostfiles' = Tail(hostfiles)
    /\ UNCHANGED hosts
    /\ LoadFrame

\* hostfile.suffix in ['.yml', '.yaml']
LoadYaml ==
    /\ pc = "while" /\ hostfiles # <<>>
    /\ ~is_dir(disk, hostfiles[1])
    /\ suffix(hostfiles[1]) \in {".yml", ".yaml"}
    /\ Parsed(IF is_file(disk, hostfiles[1])
              THEN _load_from_yaml(contents(disk, hostfiles[1]))
              ELSE [hosts |-> <<>>, error |-> TRUE])

\* hostfile.suffix in ['.ini']
LoadIniFile ==
    /\ pc = "while" /\ hostfiles # <<>>
    /\ ~is_dir(disk, hostfiles[1])
    /\ suffix(hostfiles[1]) \in {".ini"}
    /\ Parsed(IF is_file(disk, hostfiles[1])
              THEN _load_from_ini(contents(disk, hostfiles[1]))
              ELSE [hosts |-> <<>>, error |-> TRUE])

\* else: pass
LoadDiscard ==
    /\ pc = "while" /\ hostfiles # <<>>
    /\ ~is_dir(disk, hostfiles[1])
    /\ suffix(hostfiles[1]) \notin {".yml", ".yaml", ".ini"}
    /\ hostfiles' = Tail(hostfiles)
    /\ UNCHANGED <<pc, hosts, loaded_hosts>>
    /\ LoadFrame

\* hosts.merge_hosts(loaded_hosts); return hosts
LoadReturn ==
    /\ pc = "while" /\ hostfiles = <<>>
    /\ hosts' = merge_hosts(hosts, loaded_hosts)
    /\ pc' = "returned"
    /\ UNCHANGED <<hostfiles, loaded_hosts>>
    /\ LoadFrame

LoadNext ==
    \/ LoadCall
    \/ LoadDirectory
    \/ LoadYaml
    \/ LoadIniFile
    \/ LoadDiscard
    \/ LoadReturn

\* The loop is sequential code: it takes its next step whenever it has one.
\* The fairness is stated for the call and for the loop's own steps (the
\* directory branch, the else branch, the return); a parser call either comes
\* back to the loop or raises, and nothing is assumed about it.
SpecLoad ==
    /\ LoadInit /\ [][LoadNext]_vars
    /\ WF_vars(LoadCall) /\ WF_vars(LoadDirectory)
    /\ WF_vars(LoadDiscard) /\ WF_vars(LoadReturn)

Parseable == {".yml", ".yaml", ".ini"}

\* Every path the worklist comes to hold, starting from paths: the paths and,
\* of each directory among them, the children the three globs match.
RECURSIVE Reached(_, _, _)
Reached(d, paths, fuel) ==
    LET more == paths \cup UNION {glob(d, p, suf) :
                    p \in {q \in paths : is_dir(d, q)}, suf \in Parseable}
    IN  IF fuel = 0 \/ more = paths THEN paths
        ELSE Reached(d, more, fuel - 1)

\* The argument of load (kept in last.srcs) reaches no file with a
\* grouped-list or structured-format extension.
NothingToParse ==
    /\ pc # "call"
    /\ \A p \in Reached(disk, Range(last.srcs), Cardinality(disk)) :
          is_dir(disk, p) \/ suffix(p) \notin Parseable

\* json.dumps gives {"all": []}
JsonOfEmpty ==
    \A order \in Orders(get_groups(hosts)) :
        _serialize_as_json(hosts, order) = << <<"all", <<>>>> >>

\* C7: when the argument of load (a path, a list of paths, a directory)
\* reaches no file with a grouped-list or structured-format extension, load
\* raises nothing, drains the worklist, returns, and the registry it returns
\* is empty and serializes to the flat JSON {"all": []}.
C7_NothingToParseLoadsEmpty ==
    /\ [](NothingToParse =>
            /\ pc # "raised"
            /\ pc = "returned" =>
                  hostfiles = <<>> /\ hosts = <<>> /\ JsonOfEmpty)
    /\ (NothingToParse ~> pc = "returned")

\* C7 witness: load(Path("inv")) has returned; inv holds notes.txt and the
\* directory old.yml with readme.md in it, and nothing to parse.
C7_Witness ==
    /\ pc = "returned" /\ NothingToParse
    /\ last.host = "Path" /\ last.srcs = <<Inv>>
    /\ File(Inv \o <<Name("notes", ".txt")>>, <<>>) \in disk
    /\ File(Inv \o <<Name("old", ".yml"), Name("readme", ".md")>>, <<>>) \in disk
    /\ hosts = <<>> /\ hostfiles = <<>>

====
